---------------------------- MODULE Spec2Model ----------------------------
(***************************************************************************)
(* arraySlice(arr, offset [, length]) of FunctionArraySlice.               *)
(*                                                                         *)
(* One call is modelled: getReturnTypeImpl on the argument types, then     *)
(* executeImpl on the argument columns.  executeImpl wraps the array       *)
(* column into an array source, decides once per call which GatherUtils    *)
(* executor to run and with which arguments, and returns the sink (or the  *)
(* input column itself).  The GatherUtils executors and the Index Resolver *)
(* they apply per row are not among the source files; they are written     *)
(* from sections 4.2 and 4.3 of the specification.                         *)
(*                                                                         *)
(* Machine integers are WordBits wide instead of 64: size_t is             *)
(* 0 .. Word-1, ssize_t is -Word/2 .. Word/2-1, and every conversion is    *)
(* taken modulo Word exactly as the C++ conversions are modulo 2^64.  Row  *)
(* lengths stay below Word/2, as a real row length stays below 2^63.       *)
(***************************************************************************)
EXTENDS Integers, Sequences, FiniteSets, TLC

\* ------------------------------------------------------------------ bounds

\* Largest number of rows of a column.
MaxRows == 2

\* Largest length of one row.
MaxLen == 3

\* Width of the machine word standing for the 64-bit size_t / ssize_t.
WordBits == 3

Word == 2 ^ WordBits

HalfWord == Word \div 2

\* Every value an accepted integer type can hold: the signed values
\* -Word/2 .. Word/2-1 (Int8 .. Int64) and the unsigned ones 0 .. Word-1
\* (UInt8 .. UInt64).
IntVals == (0 - HalfWord) .. (Word - 1)

Max(a, b) == IF a >= b THEN a ELSE b

Min(a, b) == IF a <= b THEN a ELSE b

\* An offset or length of one row: an integer, or absent (null / omitted).
Absent == [has |-> FALSE, v |-> 0]

Some(x) == [has |-> TRUE, v |-> x]

OptInts == {Absent} \cup {Some(x) : x \in IntVals}

\* -------------------------------------------------------- Index Resolver

\* Step 1: the 1-based start position s.  A literal 0 follows the generic
\* formula s = o.
ResolveStart(n, o) ==
    IF ~o.has THEN 1
    ELSE IF o.v > 0 THEN o.v
    ELSE IF o.v < 0 THEN n + o.v + 1
    ELSE o.v

\* Step 2: the exclusive end position e, for a start s that was derived from
\* an offset that was absent (oAbsent) or given.
ResolveEnd(n, s, oAbsent, l) ==
    IF ~l.has THEN (IF oAbsent THEN n ELSE n + 1)
    ELSE IF l.v >= 0 THEN s + l.v
    ELSE n + l.v + 1

\* Clamp with the upper bound forgotten.
ClampLowerOnly(x, n) == Max(1, x)

\* Step 3: clamp a position into 1 .. n+1.
Clamp(x, n) == Max(1, Min(x, n + 1))

\* ResolveFrom with the end left 1-based.
ResolveFromEndNotShifted(n, s, oAbsent, l) ==
    LET e  == ResolveEnd(n, s, oAbsent, l)
        s1 == Clamp(s, n)
        e1 == Clamp(e, n)
    IN  [start |-> s1 - 1, end |-> Max(s1 - 1, e1)]

\* Steps 2-4 from a given start position: the half-open 0-based range.
ResolveFrom(n, s, oAbsent, l) ==
    LET e  == ResolveEnd(n, s, oAbsent, l)
        s1 == Clamp(s, n)
        e1 == Clamp(e, n)
    IN  [start |-> s1 - 1, end |-> Max(s1 - 1, e1 - 1)]

\* The Index Resolver: (row length, offset, length) -> [start, end).
Resolver(n, o, l) == ResolveFrom(n, ResolveStart(n, o), ~o.has, l)

\* ------------------------------------------------------------- executors
\* Each executor, per row of length n.

\* Left-anchored from the 0-based start `offset`, to the end of the row.
sliceFromLeftConstantOffsetUnbounded(n, offset) ==
    ResolveFrom(n, offset + 1, FALSE, Absent)

\* Left-anchored from the 0-based start `offset`, bounded by `length`.
sliceFromLeftConstantOffsetBounded(n, offset, length) ==
    ResolveFrom(n, offset + 1, FALSE, Some(length))

\* Right-anchored: the start is `offset` elements before the row's end.
sliceFromRightConstantOffsetUnbounded(n, offset) ==
    ResolveFrom(n, n + 1 - offset, FALSE, Absent)

\* Right-anchored, bounded by `length`.
sliceFromRightConstantOffsetBounded(n, offset, length) ==
    ResolveFrom(n, n + 1 - offset, FALSE, Some(length))

\* Fully dynamic, no length: the resolver on the row's own offset.
sliceDynamicOffsetUnbounded(n, o) == Resolver(n, o, Absent)

\* Fully dynamic: the resolver on the row's own offset and length.
sliceDynamicOffsetBounded(n, o, l) == Resolver(n, o, l)

\* ------------------------------------------------------- types, columns

\* Largest number of arguments of a call.
MaxArgs == 4

\* A data type, as far as getReturnTypeImpl tells types apart: an array
\* type, an integer type (possibly nullable), the only-null type
\* Nullable(Nothing), and any other type.
Types == {"array", "int", "null", "other"}

ArgumentTypes == UNION {[1 .. k -> Types] : k \in 0 .. MaxArgs}

\* An element of the flat buffer; every third one is a null marker, the
\* others are pairwise distinct.
Elem(j) == [null |-> (j % 3 = 0), v |-> IF j % 3 = 0 THEN 0 ELSE j]

RECURSIVE SumUpTo(_, _)
SumUpTo(lens, i) == IF i = 0 THEN 0 ELSE lens[i] + SumUpTo(lens, i - 1)

\* ColumnArray: the flat buffer and the cumulative offsets of its rows.
\* shape "array" is a ColumnArray of `size` rows; "const" a ColumnConst over
\* a one-row ColumnArray, logically `size` rows; "other" a column that is
\* neither; "nullconst" the constant column of an only-null argument.
ColumnArray(lens) ==
    [shape   |-> "array",
     offsets |-> [i \in 1 .. Len(lens) |-> SumUpTo(lens, i)],
     data    |-> [j \in 1 .. SumUpTo(lens, Len(lens)) |-> Elem(j)],
     size    |-> Len(lens)]

ColumnConst(lens, n) == [ColumnArray(lens) EXCEPT !.shape = "const", !.size = n]

ColumnOther(shape, n) == [shape |-> shape, offsets |-> <<>>, data |-> <<>>, size |-> n]

NoColumn == ColumnOther("none", 0)

RowLens == UNION {[1 .. k -> 0 .. MaxLen] : k \in 0 .. MaxRows}

\* The columns an argument of type t can arrive as, as the first argument.
ArrayColumns(t) ==
    IF t = "array"
    THEN {ColumnArray(lens) : lens \in RowLens}
         \cup {ColumnConst(<<k>>, n) : k \in 0 .. MaxLen, n \in 0 .. MaxRows}
         \cup {ColumnOther("other", n) : n \in 0 .. MaxRows}
    ELSE {ColumnOther("nullconst", n) : n \in 0 .. MaxRows}

\* Offset / length columns: only-null, constant, one value per row, a column
\* of another type, or (length only) no third argument.
NullCol == [kind |-> "null", v |-> 0, vals |-> <<>>]

ConstCol(x) == [kind |-> "const", v |-> x, vals |-> <<>>]

DynCol(xs) == [kind |-> "dyn", v |-> 0, vals |-> xs]

OtherCol == [kind |-> "other", v |-> 0, vals |-> <<>>]

Omitted == [kind |-> "omitted", v |-> 0, vals |-> <<>>]

\* The per-row columns tried: consecutive values from a first value, with
\* nulls at no row, at the odd rows or at the even rows.
DynFirst == {0 - 3, 0 - 2, 0, 1, 2}

NullModes == {"none", "odd", "even"}

DynVals(n) ==
    {[i \in 1 .. n |->
        IF (m = "odd" /\ i % 2 = 1) \/ (m = "even" /\ i % 2 = 0)
        THEN Absent ELSE Some(b + i - 1)] : b \in DynFirst, m \in NullModes}

ParamColumns(t, n) ==
    IF t = "null" THEN {NullCol}
    ELSE IF t = "int"
    THEN {NullCol} \cup {ConstCol(x) : x \in IntVals} \cup {DynCol(xs) : xs \in DynVals(n)}
    ELSE {OtherCol}

\* The value of an offset / length column at row i.
ValAt(col, i) ==
    IF col.kind = "const" THEN Some(col.v)
    ELSE IF col.kind = "dyn" THEN col.vals[i]
    ELSE Absent

onlyNull(col) == col.kind = "null"

isColumnConst(col) == col.kind = "const"

\* ------------------------------------------------------ integer conversions

\* static_cast<size_t>(x): modulo the word.
ToSize(x) == x % Word

\* A word read as ssize_t.
ToSSize(u) == IF u >= HalfWord THEN u - Word ELSE u

\* IColumn::getUInt(0): the stored value as an unsigned word.
getUInt(col) == col.v % Word

\* IColumn::getInt(0): the stored value as a signed word.
getInt(col) == ToSSize(col.v % Word)

\* NegSize with the negation forgotten.
NegSizeNotNegated(offset) == ToSize(offset)

\* -static_cast<size_t>(offset)
NegSize(offset) == (Word - ToSize(offset)) % Word

\* static_cast<size_t>(offset - 1)
LeftStart(offset) == ToSize(offset - 1)

\* IsLeft with offset >= 0.
IsLeftOrZero(offset) == offset >= 0

\* offset > 0: the side a constant offset is anchored to.
IsLeft(offset) == offset > 0

\* NoLength with the only-null test forgotten.
NoLengthOmittedOnly(length_column) == length_column.kind = "omitted"

\* !length_column || length_column->onlyNull()
NoLength(length_column) == length_column.kind = "omitted" \/ onlyNull(length_column)

\* ------------------------------------------------------ getReturnTypeImpl

Throw(code) == [ok |-> FALSE, type |-> "none", error |-> code]

Return(type) == [ok |-> TRUE, type |-> type, error |-> "none"]

\* BadArgumentCount with the upper bound forgotten.
BadArgumentCountNoUpper(number_of_arguments) == number_of_arguments < 2

\* number_of_arguments < 2 || number_of_arguments > 3
BadArgumentCount(number_of_arguments) ==
    number_of_arguments < 2 \/ number_of_arguments > 3

\* The offset / length arguments the type check inspects: 1 .. count-1,
\* here 1-based positions 2 .. count.
CheckedArguments(number_of_arguments) == 2 .. number_of_arguments

getReturnTypeImpl(arguments) ==
    LET number_of_arguments == Len(arguments) IN
    IF BadArgumentCount(number_of_arguments)
    THEN Throw("NUMBER_OF_ARGUMENTS_DOESNT_MATCH")
    ELSE IF arguments[1] = "null"
    THEN Return(arguments[1])
    ELSE IF arguments[1] # "array"
    THEN Throw("ILLEGAL_TYPE_OF_ARGUMENT")
    ELSE IF \E i \in CheckedArguments(number_of_arguments) :
                arguments[i] # "int" /\ arguments[i] # "null"
    THEN Throw("ILLEGAL_TYPE_OF_ARGUMENT")
    ELSE Return(arguments[1])

\* ------------------------------------------------------------ executeImpl

\* What executeImpl decides: the executor it calls and the arguments it
\* hands over ("identity": none is called, the input column is returned).
Decision(executor, offset, length, offset_column, length_column) ==
    [executor |-> executor, offset |-> offset, length |-> length,
     offset_column |-> offset_column, length_column |-> length_column]

NoDecision == Decision("none", 0, 0, Omitted, Omitted)

\* The if / else chain of executeImpl over the offset and length columns.
Dispatch(offset_column, length_column) ==
    IF onlyNull(offset_column)
    THEN IF NoLength(length_column)
         THEN Decision("identity", 0, 0, Omitted, Omitted)
         ELSE IF isColumnConst(length_column)
         THEN Decision("sliceFromLeftConstantOffsetBounded",
                       0, getInt(length_column), Omitted, Omitted)
         ELSE Decision("sliceDynamicOffsetBounded", 0, 0, ConstCol(1), length_column)
    ELSE IF isColumnConst(offset_column)
    THEN LET offset == ToSSize(getUInt(offset_column)) IN
         IF NoLength(length_column)
         THEN IF IsLeft(offset)
              THEN Decision("sliceFromLeftConstantOffsetUnbounded",
                            LeftStart(offset), 0, Omitted, Omitted)
              ELSE Decision("sliceFromRightConstantOffsetUnbounded",
                            NegSize(offset), 0, Omitted, Omitted)
         ELSE IF isColumnConst(length_column)
         THEN LET length == getInt(length_column) IN
              IF IsLeft(offset)
              THEN Decision("sliceFromLeftConstantOffsetBounded",
                            LeftStart(offset), length, Omitted, Omitted)
              ELSE Decision("sliceFromRightConstantOffsetBounded",
                            NegSize(offset), length, Omitted, Omitted)
         ELSE Decision("sliceDynamicOffsetBounded", 0, 0, offset_column, length_column)
    ELSE IF NoLength(length_column)
         THEN Decision("sliceDynamicOffsetUnbounded", 0, 0, offset_column, Omitted)
         ELSE Decision("sliceDynamicOffsetBounded", 0, 0, offset_column, length_column)

\* The range the chosen executor resolves for row i, of length n.
ExecRow(d, n, i) ==
    CASE d.executor = "sliceFromLeftConstantOffsetUnbounded" ->
            sliceFromLeftConstantOffsetUnbounded(n, d.offset)
      [] d.executor = "sliceFromLeftConstantOffsetBounded" ->
            sliceFromLeftConstantOffsetBounded(n, d.offset, d.length)
      [] d.executor = "sliceFromRightConstantOffsetUnbounded" ->
            sliceFromRightConstantOffsetUnbounded(n, d.offset)
      [] d.executor = "sliceFromRightConstantOffsetBounded" ->
            sliceFromRightConstantOffsetBounded(n, d.offset, d.length)
      [] d.executor = "sliceDynamicOffsetUnbounded" ->
            sliceDynamicOffsetUnbounded(n, ValAt(d.offset_column, i))
      [] OTHER ->
            sliceDynamicOffsetBounded(n, ValAt(d.offset_column, i),
                                         ValAt(d.length_column, i))

\* SourceSize taken after the constant is unwrapped: a non-empty constant
\* counts as the single row it holds.
SourceSizeUnwrapped(array_column) == Min(array_column.size, Len(array_column.offsets))

\* size = array_column->size(), taken before the constant is unwrapped.
SourceSize(array_column) == array_column.size

\* GatherUtils::createArraySource(column, is_const, size): a read-only view
\* of `size` rows; a constant source repeats its single row.
createArraySource(array_column, is_const, size) ==
    [column |-> array_column, is_const |-> is_const, size |-> size]

\* Row i of a ColumnArray: the elements between its two offsets.
RowOf(column, i) ==
    SubSeq(column.data,
           (IF i = 1 THEN 0 ELSE column.offsets[i - 1]) + 1,
           column.offsets[i])

\* Row i of a source.
SourceRow(source, i) == RowOf(source.column, IF source.is_const THEN 1 ELSE i)

\* Row i of a column, constant or not.
ColumnRow(column, i) == RowOf(column, IF column.shape = "const" THEN 1 ELSE i)

\* The copy of one resolved range of a row.
writeSlice(row, range) == SubSeq(row, range.start + 1, range.end)

RECURSIVE Flatten(_, _)
Flatten(rows, i) == IF i = 0 THEN <<>> ELSE Flatten(rows, i - 1) \o rows[i]

\* The sink: the rows appended in order to a fresh flat buffer, with the
\* cumulative offsets.
Sink(rows) ==
    [shape   |-> "array",
     offsets |-> [i \in 1 .. Len(rows) |-> Len(Flatten(rows, i))],
     data    |-> Flatten(rows, Len(rows)),
     size    |-> Len(rows)]

\* useDefaultImplementationForConstants: a call whose arguments are all
\* constant columns is evaluated by the framework on unwrapped columns, so
\* executeImpl never sees it.
AllConstant(array_column, offset_column, length_column) ==
    /\ array_column.shape \in {"const", "nullconst"}
    /\ offset_column.kind = "const"
    /\ length_column.kind \in {"omitted", "const"}

\* ------------------------------------------------------------------ state

VARIABLES
    pc,          \* "idle", "typed", "done" or "failed"
    types,       \* the argument types of the call
    retType,     \* what getReturnTypeImpl returned
    error,       \* the exception thrown, or "none"
    arguments,   \* the argument columns: array, offset, length
    decision,    \* the executor executeImpl called and its arguments
    ranges,      \* the range the executor resolved for each row
    result,      \* the column executeImpl returned
    res          \* the Index Resolver applied on its own

vars == <<pc, types, retType, error, arguments, decision, ranges, result, res>>

NoArguments == [array |-> NoColumn, offset |-> Omitted, length |-> Omitted]

ResIdle == [pc |-> "idle", n |-> 0, o |-> Absent, l |-> Absent,
            range |-> [start |-> 0, end |-> 0]]

Init ==
    /\ pc = "idle"
    /\ types = <<>>
    /\ retType = "none"
    /\ error = "none"
    /\ arguments = NoArguments
    /\ decision = NoDecision
    /\ ranges = <<>>
    /\ result = NoColumn
    /\ res = ResIdle

\* The framework asks for the return type of a call with the given types.
GetReturnType ==
    /\ pc = "idle"
    /\ \E t \in ArgumentTypes :
          LET r == getReturnTypeImpl(t) IN
          /\ types' = t
          /\ retType' = r.type
          /\ error' = r.error
          /\ pc' = IF r.ok THEN "typed" ELSE "failed"
    /\ UNCHANGED <<arguments, decision, ranges, result, res>>

\* The framework executes the call on columns of the types it checked.
ExecuteImpl ==
    /\ pc = "typed"
    /\ \E array_column \in ArrayColumns(types[1]) :
       \E offset_column \in ParamColumns(types[2], array_column.size) :
       \E length_column \in (IF Len(types) > 2
                             THEN ParamColumns(types[3], array_column.size)
                             ELSE {Omitted}) :
          /\ ~AllConstant(array_column, offset_column, length_column)
          /\ arguments' = [array |-> array_column, offset |-> offset_column,
                           length |-> length_column]
          /\ IF retType = "null"
             THEN /\ result' = ColumnOther("constDefault", array_column.size)
                  /\ decision' = NoDecision
                  /\ ranges' = <<>>
                  /\ pc' = "done"
                  /\ error' = error
             ELSE IF array_column.shape \notin {"array", "const"}
             THEN /\ error' = "LOGICAL_ERROR"
                  /\ pc' = "failed"
                  /\ UNCHANGED <<decision, ranges, result>>
             ELSE LET size   == SourceSize(array_column)
                      source == createArraySource(array_column,
                                                  array_column.shape = "const", size)
                      d      == Dispatch(offset_column, length_column)
                      rs     == [i \in 1 .. source.size |->
                                    ExecRow(d, Len(SourceRow(source, i)), i)]
                  IN  /\ decision' = d
                      /\ pc' = "done"
                      /\ error' = error
                      /\ IF d.executor = "identity"
                         THEN /\ result' = array_column
                              /\ ranges' = <<>>
                         ELSE /\ ranges' = rs
                              /\ result' = Sink([i \in 1 .. source.size |->
                                                  writeSlice(SourceRow(source, i), rs[i])])
    /\ UNCHANGED <<types, retType, res>>

Next == GetReturnType \/ ExecuteImpl

Spec == Init /\ [][Next]_vars

\* ------------------------------------------- the Index Resolver on its own

InitResolver ==
    /\ pc = "idle"
    /\ types = <<>>
    /\ retType = "none"
    /\ error = "none"
    /\ arguments = NoArguments
    /\ decision = NoDecision
    /\ ranges = <<>>
    /\ result = NoColumn
    /\ \E n \in 0 .. MaxLen : \E o \in OptInts : \E l \in OptInts :
          res = [ResIdle EXCEPT !.pc = "in", !.n = n, !.o = o, !.l = l]

Resolve ==
    /\ res.pc = "in"
    /\ res' = [res EXCEPT !.pc = "out", !.range = Resolver(res.n, res.o, res.l)]
    /\ UNCHANGED <<pc, types, retType, error, arguments, decision, ranges, result>>

NextResolver == Resolve

SpecResolver == InitResolver /\ [][NextResolver]_vars

\* ----------------------------------------------------------------- claims

\* The call reached the dispatch of executeImpl and returned.
Dispatched == pc = "done" /\ decision.executor # "none"

\* The call ran one of the GatherUtils executors.
Sliced == Dispatched /\ decision.executor # "identity"

NumRows == arguments.array.size

InRow(i) == ColumnRow(arguments.array, i)

OutRow(i) == RowOf(result, i)

\* The offset and the length of row i, as the integers the columns hold.
OffAt(i) == ValAt(arguments.offset, i)

LenAt(i) == ValAt(arguments.length, i)

\* C1: the Index Resolver is total and in bounds: for every row length,
\* offset and length (of any sign, zero, beyond the row, or absent) the range
\* satisfies 0 <= start <= end <= n, the copied row has end - start elements,
\* and it is empty whenever the clamped end is not after the clamped start.
C1_ResolverInBounds ==
    res.pc = "out" =>
        LET n  == res.n
            r  == res.range
            s  == ResolveStart(n, res.o)
            s1 == Clamp(s, n)
            e1 == Clamp(ResolveEnd(n, s, ~res.o.has, res.l), n)
            row == [j \in 1 .. n |-> Elem(j)]
        IN  /\ 0 <= r.start /\ r.start <= r.end /\ r.end <= n
            /\ Len(writeSlice(row, r)) = r.end - r.start
            /\ (e1 <= s1 => Len(writeSlice(row, r)) = 0)

C1_Witness ==
    /\ res.pc = "out"
    /\ res.o.has /\ res.o.v > res.n + 1
    /\ res.l.has /\ res.l.v < 0 - res.n
    /\ res.n > 0
    /\ res.range.start = res.range.end

C2_Identity ==
    (pc = "done" /\ retType = "array"
       /\ arguments.offset.kind = "null"
       /\ arguments.length.kind \in {"omitted", "null"}) =>
        /\ result = arguments.array
        /\ decision.executor = "identity"
        /\ ranges = <<>>
        /\ \A i \in 1 .. NumRows : ColumnRow(result, i) = InRow(i)

C2_Witness ==
    /\ pc = "done" /\ retType = "array"
    /\ arguments.offset.kind = "null" /\ arguments.length.kind = "null"
    /\ arguments.array.shape = "array" /\ NumRows = MaxRows
    /\ \E i \in 1 .. NumRows : Len(ColumnRow(result, i)) = 0
    /\ \E i \in 1 .. NumRows : Len(ColumnRow(result, i)) = MaxLen

\* The offset is a constant integer / the length is omitted, only-null or a
\* constant integer.
ConstOffset == arguments.offset.kind = "const"

StaticLength == arguments.length.kind \in {"omitted", "null", "const"}

\* C3 as stated: every specialised path resolves, for each row, exactly the
\* range the Index Resolver gives for (row length, o, l): with a constant
\* offset o # 0 and a length that is absent or constant, and with an
\* only-null offset and a constant or per-row length.
C3_PathsMatchResolver ==
    (Sliced /\ arguments.length.kind # "dyn"
            /\ (onlyNull(arguments.offset) \/ (ConstOffset /\ arguments.offset.v # 0))) =>
        \A i \in 1 .. NumRows :
            /\ ranges[i] = Resolver(Len(InRow(i)), OffAt(i), LenAt(i))
            /\ ranges[i] = sliceDynamicOffsetBounded(Len(InRow(i)), OffAt(i), LenAt(i))

\* The paths do match the resolver while both constants lie in the signed
\* range, that is below Word/2.
C3_SignedConstantsMatch ==
    (Sliced /\ arguments.length.kind # "dyn"
            /\ (onlyNull(arguments.offset) \/ (ConstOffset /\ arguments.offset.v # 0))
            /\ arguments.offset.v < HalfWord /\ arguments.length.v < HalfWord) =>
        \A i \in 1 .. NumRows :
            ranges[i] = Resolver(Len(InRow(i)), OffAt(i), LenAt(i))

\* The path the decision table names for the kinds of the two columns and
\* the sign of a constant offset; a constant 0 has no sign, either side.
TablePaths(offset_column, length_column) ==
    LET lk == IF NoLength(length_column) THEN "absent" ELSE length_column.kind
        o  == offset_column.v
    IN  CASE onlyNull(offset_column) /\ lk = "absent" -> {"identity"}
          [] onlyNull(offset_column) /\ lk = "const" ->
                {"sliceFromLeftConstantOffsetBounded"}
          [] onlyNull(offset_column) /\ lk = "dyn" -> {"sliceDynamicOffsetBounded"}
          [] offset_column.kind = "const" /\ lk = "absent" ->
                (IF o >= 0 THEN {"sliceFromLeftConstantOffsetUnbounded"} ELSE {})
                \cup (IF o <= 0 THEN {"sliceFromRightConstantOffsetUnbounded"} ELSE {})
          [] offset_column.kind = "const" /\ lk = "const" ->
                (IF o >= 0 THEN {"sliceFromLeftConstantOffsetBounded"} ELSE {})
                \cup (IF o <= 0 THEN {"sliceFromRightConstantOffsetBounded"} ELSE {})
          [] offset_column.kind = "const" /\ lk = "dyn" -> {"sliceDynamicOffsetBounded"}
          [] offset_column.kind = "dyn" /\ lk = "absent" -> {"sliceDynamicOffsetUnbounded"}
          [] OTHER -> {"sliceDynamicOffsetBounded"}

\* The call took the path of the table: an only-null offset goes left from
\* position 1, or dynamic with the offset fixed at 1; a dynamic path gets the
\* columns of the call; an only-null column is never read as an integer.
Routed ==
    /\ decision.executor \in TablePaths(arguments.offset, arguments.length)
    /\ (onlyNull(arguments.offset) /\ decision.executor # "identity") =>
          \/ decision.offset_column = ConstCol(1)
          \/ (decision.offset = 0 /\ decision.offset_column = Omitted)
    /\ (decision.executor \in {"sliceDynamicOffsetBounded", "sliceDynamicOffsetUnbounded"}
          /\ ~onlyNull(arguments.offset)) =>
          decision.offset_column = arguments.offset
    /\ (decision.executor = "sliceDynamicOffsetBounded") =>
          decision.length_column = arguments.length

\* C4 as stated: the dispatcher routes every combination of (only-null,
\* constant, per-row) offset and (omitted / only-null, constant, per-row)
\* length to the one path of the decision table, the side of a constant
\* offset picked by the sign of the offset.
C4_DecisionTable == Dispatched => Routed

\* The routing does follow the table while a constant offset lies in the
\* signed range.
C4_SignedOffsetsFollowTable ==
    (Dispatched /\ arguments.offset.v < HalfWord) => Routed

\* A constant offset o > 0 went to a left-anchored executor with 0-based
\* start o - 1, and o < 0 to a right-anchored one with distance |o|.
SidePicked ==
    LET o == arguments.offset.v IN
    /\ o > 0 => /\ decision.executor \in {"sliceFromLeftConstantOffsetUnbounded",
                                          "sliceFromLeftConstantOffsetBounded"}
                /\ decision.offset = o - 1
    /\ o < 0 => /\ decision.executor \in {"sliceFromRightConstantOffsetUnbounded",
                                          "sliceFromRightConstantOffsetBounded"}
                /\ decision.offset = 0 - o

\* C10 as stated: for a constant offset and a static length the side is
\* picked by the sign of the offset over the whole range of every accepted
\* integer type, up to the largest unsigned value and down to the smallest
\* signed one, and no value changes sign or magnitude on the way.
C10_SignPicksSide == (Sliced /\ ConstOffset /\ StaticLength) => SidePicked

\* The sign does pick the side for every offset in the signed range.
C10_SignedOffsetsKeepSign ==
    (Sliced /\ ConstOffset /\ StaticLength /\ arguments.offset.v < HalfWord) => SidePicked

RECURSIVE SumRanges(_, _)
SumRanges(rs, i) ==
    IF i = 0 THEN 0 ELSE (rs[i].end - rs[i].start) + SumRanges(rs, i - 1)

\* C5: the sink is the row-by-row copy of the resolved ranges: as many rows
\* as the input (a constant array counted as its logical size), offsets
\* non-decreasing and ending at the length of the flat buffer, the buffer as
\* long as the ranges together, and output row i the elements of input row
\* i at positions start_i .. end_i - 1, in order, null markers included.
C5_RowByRowCopy ==
    Sliced =>
        /\ result.shape = "array"
        /\ result.size = NumRows
        /\ Len(result.offsets) = NumRows
        /\ Len(ranges) = NumRows
        /\ \A i \in 1 .. NumRows :
              (IF i = 1 THEN 0 ELSE result.offsets[i - 1]) <= result.offsets[i]
        /\ Len(result.data) = (IF NumRows = 0 THEN 0 ELSE result.offsets[NumRows])
        /\ Len(result.data) = SumRanges(ranges, NumRows)
        /\ \A i \in 1 .. NumRows :
              LET r == ranges[i] IN
              /\ 0 <= r.start /\ r.start <= r.end /\ r.end <= Len(InRow(i))
              /\ Len(OutRow(i)) = r.end - r.start
              /\ Len(OutRow(i)) <= Len(InRow(i))
              /\ \A k \in 1 .. Len(OutRow(i)) : OutRow(i)[k] = InRow(i)[r.start + k]

C5_Witness ==
    /\ Sliced
    /\ arguments.array.shape = "const" /\ NumRows = MaxRows
    /\ arguments.offset.kind = "dyn"
    /\ \E i \in 1 .. NumRows : Len(OutRow(i)) = 0
    /\ \E i \in 1 .. NumRows :
          /\ Len(OutRow(i)) >= 2 /\ Len(OutRow(i)) < Len(InRow(i))
          /\ \E k \in 1 .. Len(OutRow(i)) : OutRow(i)[k].null

\* The 1-based start a present offset o selects in a row of length n.
PositiveIndex(n, o) == IF o > 0 THEN o ELSE n + o + 1

\* Row i has a valid offset (its start lies within the row) and a negative
\* length.
TrimmedRow(i) ==
    /\ OffAt(i).has /\ OffAt(i).v # 0
    /\ PositiveIndex(Len(InRow(i)), OffAt(i).v) \in 1 .. Len(InRow(i))
    /\ LenAt(i).has /\ LenAt(i).v < 0

\* C6 as stated: for a valid offset resolving to the start s and a length
\* -m < 0 the output row holds the elements at positions s .. n - m and has
\* length n - (s - 1) - m.
C6_Original ==
    Sliced =>
        \A i \in 1 .. NumRows :
            TrimmedRow(i) =>
                LET n == Len(InRow(i))
                    s == PositiveIndex(n, OffAt(i).v)
                    m == 0 - LenAt(i).v
                IN  /\ OutRow(i) = SubSeq(InRow(i), s, n - m)
                    /\ Len(OutRow(i)) = n - (s - 1) - m

\* C6 amended: the output row holds the elements at positions s .. n - m
\* and has length max(0, n - (s - 1) - m): it is empty when m reaches or
\* passes the n - (s - 1) elements from s on.
C6_NegativeLengthTrim ==
    Sliced =>
        \A i \in 1 .. NumRows :
            TrimmedRow(i) =>
                LET n == Len(InRow(i))
                    s == PositiveIndex(n, OffAt(i).v)
                    m == 0 - LenAt(i).v
                IN  /\ OutRow(i) = SubSeq(InRow(i), s, n - m)
                    /\ Len(OutRow(i)) = Max(0, n - (s - 1) - m)

C6_Witness ==
    /\ Sliced /\ ConstOffset /\ arguments.length.kind = "const"
    /\ arguments.offset.v < 0
    /\ decision.executor = "sliceFromRightConstantOffsetBounded"
    /\ \E i \in 1 .. NumRows :
          /\ TrimmedRow(i)
          /\ Len(InRow(i)) = MaxLen
          /\ Len(OutRow(i)) = 1
          /\ OutRow(i)[1] = InRow(i)[2]

\* C7 as stated: a literal offset 0 behaves like offset 1: with the length
\* omitted, only-null or constant, the constant-offset path taken for 0
\* resolves for every row the range the path taken for 1 resolves, and a
\* per-row offset of 0 resolves what a per-row offset of 1 resolves.
C7_Original ==
    /\ (Sliced /\ ConstOffset /\ arguments.offset.v = 0 /\ StaticLength) =>
          \A i \in 1 .. NumRows :
              ranges[i] = ExecRow(Dispatch(ConstCol(1), arguments.length),
                                  Len(InRow(i)), i)
    /\ (Sliced /\ arguments.offset.kind = "dyn") =>
          \A i \in 1 .. NumRows :
              OffAt(i) = Some(0) =>
                  ranges[i] = Resolver(Len(InRow(i)), Some(1), LenAt(i))

\* C7 amended: a constant offset 0 is not special-cased and does not behave
\* like offset 1: with the length omitted, only-null or constant, it fails
\* the test offset > 0 and takes the right-anchored executor with distance
\* 0, whose start lies past the last element, so every output row is empty.
C7_ZeroOffsetIsEmpty ==
    (Sliced /\ ConstOffset /\ arguments.offset.v = 0 /\ StaticLength) =>
        /\ decision.executor \in {"sliceFromRightConstantOffsetUnbounded",
                                  "sliceFromRightConstantOffsetBounded"}
        /\ decision.offset = 0
        /\ \A i \in 1 .. NumRows : Len(OutRow(i)) = 0

C7_Witness ==
    /\ Sliced /\ ConstOffset /\ arguments.offset.v = 0
    /\ arguments.length.kind = "const" /\ arguments.length.v > 0
    /\ NumRows = MaxRows
    /\ \A i \in 1 .. NumRows : Len(InRow(i)) = MaxLen /\ Len(OutRow(i)) = 0

\* The argument types pass the checks of getReturnTypeImpl for an array.
ValidTypes ==
    /\ Len(types) \in 2 .. 3
    /\ types[1] = "array"
    /\ \A i \in 2 .. Len(types) : types[i] \in {"int", "null"}

\* C8: no call reaches source creation and dispatch with an invalid argument
\* list.  A count outside 2..3 raises NUMBER_OF_ARGUMENTS_DOESNT_MATCH
\* whatever the types; a first argument that is neither an array nor
\* only-null, or an offset / length that is neither integer nor only-null,
\* raises ILLEGAL_TYPE_OF_ARGUMENT; an only-null first argument passes
\* without a look at the other types and yields the all-default constant
\* column of the input's row count, no executor run; and after the checks
\* the only error is the LOGICAL_ERROR for a first column that is not an
\* array.
C8_ValidatedBeforeDispatch ==
    /\ Dispatched => ValidTypes
    /\ (pc # "idle" /\ Len(types) \notin 2 .. 3) =>
          (pc = "failed" /\ error = "NUMBER_OF_ARGUMENTS_DOESNT_MATCH")
    /\ (pc # "idle" /\ Len(types) \in 2 .. 3 /\ types[1] # "null" /\ ~ValidTypes) =>
          (pc = "failed" /\ error = "ILLEGAL_TYPE_OF_ARGUMENT")
    /\ (pc # "idle" /\ Len(types) \in 2 .. 3 /\ types[1] = "null") =>
          /\ retType = "null" /\ error = "none" /\ pc \in {"typed", "done"}
          /\ pc = "done" =>
                /\ result = ColumnOther("constDefault", NumRows)
                /\ decision = NoDecision
    /\ (pc # "idle" /\ ValidTypes) =>
          /\ retType = "array"
          /\ pc = "failed" =>
                /\ error = "LOGICAL_ERROR"
                /\ arguments.array.shape \notin {"array", "const"}
          /\ pc = "done" => (Dispatched /\ error = "none")

C8_Witness ==
    /\ pc = "failed" /\ error = "LOGICAL_ERROR"
    /\ ValidTypes /\ Len(types) = 3 /\ types[2] = "null" /\ types[3] = "int"
    /\ arguments.array.shape = "other"

=============================================================================
